---------------------------- MODULE Spec2Model ----------------------------
(***************************************************************************)
(* Salary tracker (src/app.py): a SQLite table `salaries` keyed by month,  *)
(* and the Streamlit script that loads it, saves the form's month, and     *)
(* renders the progress, yearly summary, history and chart tabs.           *)
(*                                                                         *)
(* Text is modelled as a sequence of one-character strings, so that        *)
(* formatting (f"{y:04d}-{m:02d}", f"{x:,}", strftime) and parsing         *)
(* (pd.to_datetime with format "%Y-%m-%d") are computed, not assumed.      *)
(***************************************************************************)
EXTENDS Integers, Sequences, FiniteSets, TLC

VARIABLES
    store,          \* the rows of table salaries (a set of records)
    last,           \* the most recent direct call of upsert_month / delete_month
    pc,             \* position of the script run ("idle": no run in progress)
    df,             \* module-level df (src/app.py:103, 144)
    ts,             \* build_timeseries(df) as last computed by a tab
    ys,             \* yearly_summary(ts) as computed by tab2
    selected_year,  \* the year picked in the current tab's selectbox
    tab1,           \* what tab1 computed and rendered
    tab2,           \* what tab2 computed and rendered
    tab3,           \* what tab3 rendered
    tab4,           \* what tab4 rendered
    view,           \* per tab: "blank", "info" (no-data notice) or "data"
    err             \* the exception that stopped the script, or "none"

vars == <<store, last, pc, df, ts, ys, selected_year, tab1, tab2, tab3, tab4,
          view, err>>

-----------------------------------------------------------------------------
(* Bounds of the model *)

\* Most rows the table holds in the model.
MaxRows == 2

\* Salaries passed to upsert_month: a negative one, zero, and one of which two
\* in a year exceed TARGET.
Amounts == {-1, 0, 800000}

\* Values of datetime.now() (seconds), src/app.py:41.
Times == {1, 2}

\* Years and months offered by the form's select boxes that the model picks
\* (src/app.py:124, 128 offer today.year-5..today.year+5 and 1..12).
FormYears == {2024, 2025}
FormMonths == {1, 3}

-----------------------------------------------------------------------------
(* Text *)

Digits == <<"0", "1", "2", "3", "4", "5", "6", "7", "8", "9">>

IsDigit(c) == \E i \in 1..10 : Digits[i] = c

DigitVal(c) == (CHOOSE i \in 1..10 : Digits[i] = c) - 1

\* The code point of a character of the model's alphabet.
Ord(c) ==
    CASE c = "," -> 44
      [] c = "-" -> 45
      [] IsDigit(c) -> 48 + DigitVal(c)
      [] c = "a" -> 97
      [] c = "b" -> 98
      [] c = "d" -> 100
      [] OTHER -> 127

\* a < b in SQLite's BINARY collation (memcmp, then length).
RECURSIVE TextLess(_, _)
TextLess(a, b) ==
    IF a = <<>> THEN b # <<>>
    ELSE IF b = <<>> THEN FALSE
    ELSE IF Ord(Head(a)) # Ord(Head(b)) THEN Ord(Head(a)) < Ord(Head(b))
    ELSE TextLess(Tail(a), Tail(b))

\* str(n) for n >= 0.
RECURSIVE NatStr(_)
NatStr(n) == IF n < 10 THEN <<Digits[n + 1]>>
             ELSE NatStr(n \div 10) \o <<Digits[(n % 10) + 1]>>

\* f"{n:0{w}d}" for n >= 0: zero-padded to at least w characters.
RECURSIVE ZeroPad(_, _)
ZeroPad(n, w) == IF Len(NatStr(n)) >= w THEN NatStr(n)
                 ELSE <<"0">> \o ZeroPad(n, w - 1)

\* f"{n:,}" for n >= 0: groups of three digits separated by commas.
RECURSIVE NatCommaStr(_)
NatCommaStr(n) == IF n < 1000 THEN NatStr(n)
                  ELSE NatCommaStr(n \div 1000) \o <<",">> \o ZeroPad(n % 1000, 3)

\* f"{int(x):,}"
CommaStr(x) == IF x < 0 THEN <<"-">> \o NatCommaStr(-x) ELSE NatCommaStr(x)

\* f"{selected_year:04d}-{selected_month:02d}" (also strftime("%Y-%m")).
month_str(y, m) == ZeroPad(y, 4) \o <<"-">> \o ZeroPad(m, 2)

\* The decimal value of a sequence of digits.
RECURSIVE DigitsVal(_)
DigitsVal(s) == IF s = <<>> THEN 0
                ELSE 10 * DigitsVal(SubSeq(s, 1, Len(s) - 1)) + DigitVal(s[Len(s)])

AllDigits(s) == \A i \in 1..Len(s) : IsDigit(s[i])

-----------------------------------------------------------------------------
(* Dates *)

NaT == [nat |-> TRUE]

IsLeap(y) == (y % 4 = 0 /\ y % 100 # 0) \/ y % 400 = 0

DaysIn(y, m) == IF m = 2 THEN (IF IsLeap(y) THEN 29 ELSE 28)
                ELSE IF m \in {4, 6, 9, 11} THEN 30 ELSE 31

\* pd.to_datetime(s, format="%Y-%m-%d", errors="coerce") of one string: four
\* year digits, "-", one or two month digits, "-", one or two day digits and
\* nothing more; a string of any other shape, a month outside 1..12, a day
\* outside the month or a date outside datetime64[ns] gives NaT.
to_datetime(s) ==
    LET mlen == IF Len(s) >= 7 /\ s[7] = "-" THEN 1 ELSE 2
        mm   == SubSeq(s, 6, 5 + mlen)
        dd   == SubSeq(s, 7 + mlen, Len(s))
        shape == /\ Len(s) >= 7 + mlen
                 /\ Len(s) <= 8 + mlen
                 /\ AllDigits(SubSeq(s, 1, 4))
                 /\ s[5] = "-"
                 /\ AllDigits(mm)
                 /\ s[6 + mlen] = "-"
                 /\ AllDigits(dd)
    IN  IF ~shape THEN NaT
        ELSE LET y == DigitsVal(SubSeq(s, 1, 4))
                 m == DigitsVal(mm)
                 d == DigitsVal(dd)
             IN  IF /\ m \in 1..12
                    /\ d \in 1..DaysIn(y, m)
                    /\ (y > 1677 \/ (y = 1677 /\ m >= 10))
                    /\ (y < 2262 \/ (y = 2262 /\ m <= 4))
                 THEN [nat |-> FALSE, year |-> y, month |-> m, day |-> d]
                 ELSE NaT

\* a sorts before b (a datetime64 comparison of two dates).
DateLess(a, b) ==
    \/ a.year < b.year
    \/ a.year = b.year /\ a.month < b.month
    \/ a.year = b.year /\ a.month = b.month /\ a.day < b.day

-----------------------------------------------------------------------------
(* Configuration and input domains *)

TARGET == 1500000

Str_2024_3 == <<"2", "0", "2", "4", "-", "3">>
Str_2024_13 == <<"2", "0", "2", "4", "-", "1", "3">>
Str_bad == <<"b", "a", "d">>

\* The months the form can produce (src/app.py:132).
FormKeys == {month_str(y, m) : y \in FormYears, m \in FormMonths}

\* Month arguments of direct calls: the form's keys, a key without the zero
\* padding, a key with month 13 and a key that is no date at all.
MonthKeys == FormKeys \cup {Str_2024_3, Str_2024_13, Str_bad}

\* A missing value: None for a select box without options, NaN for a cell
\* without data. A present value v is {v}.
None == {}
NaN == {}

-----------------------------------------------------------------------------
(* Store: table salaries (month TEXT PRIMARY KEY, salary, updated_at) *)

\* INSERT ... VALUES (month, int(salary), now): a second row for the month
\* when one is there already (no conflict clause).
InsertRows(rows, month, salary, now) ==
    rows \cup {[month |-> month, salary |-> salary, updated_at |-> now]}

\* INSERT ... ON CONFLICT(month) DO UPDATE SET salary, updated_at: the row of
\* the month is replaced, or added when there is none.
UpsertRows(rows, month, salary, now) ==
    {r \in rows : r.month # month}
        \cup {[month |-> month, salary |-> salary, updated_at |-> now]}

\* DELETE FROM salaries (no WHERE clause).
DeleteAllRows(rows, month) == {}

\* DELETE FROM salaries WHERE month = ?
DeleteRows(rows, month) == {r \in rows : r.month # month}

\* The salary stored for a month: {} or {salary}.
StoredSalary(rows, month) == {r.salary : r \in {q \in rows : q.month = month}}

\* SELECT ... ORDER BY month: the rows in ascending text order of the key.
RECURSIVE OrderByMonth(_)
OrderByMonth(rows) ==
    IF rows = {} THEN <<>>
    ELSE LET r == CHOOSE r \in rows :
                     \A q \in rows : ~TextLess(q.month, r.month)
         IN  <<r>> \o OrderByMonth(rows \ {r})

DfColumns == {"month", "salary", "updated_at"}
TsColumns == DfColumns \cup {"month_date", "year", "ym", "cumulative"}
YsColumns == {"year", "year_total", "month_avg", "max_month_salary"}

\* load_data(): the table as a frame; the salary column holds integers
\* (upsert_month stores int(salary)), which to_numeric/fillna/astype keep.
load_data(rows) == [columns |-> DfColumns, rows |-> OrderByMonth(rows)]

Empty(frame) == frame.rows = <<>>

-----------------------------------------------------------------------------
(* Aggregation *)

RECURSIVE SumSeq(_)
SumSeq(s) == IF s = <<>> THEN 0 ELSE Head(s) + SumSeq(Tail(s))

RECURSIVE MaxSeq(_)
MaxSeq(s) == IF Len(s) = 1 THEN s[1]
             ELSE LET m == MaxSeq(Tail(s)) IN IF s[1] > m THEN s[1] ELSE m

Salaries(rows) == [i \in 1..Len(rows) |-> rows[i].salary]

\* A running sum that starts again at every new year.
CumSumPerYear(rows) ==
    [i \in 1..Len(rows) |->
        SumSeq(Salaries(SelectSeq(SubSeq(rows, 1, i),
                                  LAMBDA r : r.year = rows[i].year)))]

\* Series.cumsum() of the salary column.
CumSum(rows) == [i \in 1..Len(rows) |-> SumSeq(Salaries(SubSeq(rows, 1, i)))]

\* sort_values("month_date"): every order of the rows that is ascending by
\* month_date (the default sort is not stable, so rows of equal date may come
\* out in either order).
RECURSIVE SortValues(_, _)
SortValues(rows, idx) ==
    IF idx = {} THEN {<<>>}
    ELSE UNION {
        {<<rows[i]>> \o rest : rest \in SortValues(rows, idx \ {i})} :
            i \in {j \in idx : \A k \in idx :
                      ~DateLess(rows[k].month_date, rows[j].month_date)}}

\* out["month_date"] = pd.to_datetime(out["month"] + "-01", ...)
WithMonthDate(rows) ==
    [i \in 1..Len(rows) |->
        [month |-> rows[i].month,
         salary |-> rows[i].salary,
         updated_at |-> rows[i].updated_at,
         month_date |-> to_datetime(rows[i].month \o <<"-", "0", "1">>)]]

\* The rows before the first one without a date: what a pass that stops at
\* the first bad row keeps.
RECURSIVE TakeUntilNaT(_)
TakeUntilNaT(rows) ==
    IF rows = <<>> \/ Head(rows).month_date = NaT THEN <<>>
    ELSE <<Head(rows)>> \o TakeUntilNaT(Tail(rows))

\* dropna(subset=["month_date"])
DropNaT(rows) == SelectSeq(rows, LAMBDA r : r.month_date # NaT)

\* out["year"], out["ym"]
WithYear(rows) ==
    [i \in 1..Len(rows) |->
        [month |-> rows[i].month,
         salary |-> rows[i].salary,
         updated_at |-> rows[i].updated_at,
         month_date |-> rows[i].month_date,
         year |-> rows[i].month_date.year,
         ym |-> month_str(rows[i].month_date.year, rows[i].month_date.month)]]

\* out["cumulative"] = out["salary"].cumsum()
WithCumulative(rows) ==
    [i \in 1..Len(rows) |->
        [month |-> rows[i].month,
         salary |-> rows[i].salary,
         updated_at |-> rows[i].updated_at,
         month_date |-> rows[i].month_date,
         year |-> rows[i].year,
         ym |-> rows[i].ym,
         cumulative |-> CumSum(rows)[i]]]

\* build_timeseries(df): the frames it can return (one per order that
\* sort_values can give).
build_timeseries(frame) ==
    IF Empty(frame) THEN {frame}
    ELSE LET kept == DropNaT(WithMonthDate(frame.rows))
         IN  {[columns |-> TsColumns, rows |-> WithCumulative(WithYear(sorted))] :
                 sorted \in SortValues(kept, 1..Len(kept))}

\* The distinct years of a frame's rows.
Years(frame) == {frame.rows[i].year : i \in 1..Len(frame.rows)}

\* The years of a set, most recent first (sorted(..., reverse=True)).
RECURSIVE Descending(_)
Descending(S) ==
    IF S = {} THEN <<>>
    ELSE LET m == CHOOSE m \in S : \A x \in S : x <= m
         IN  <<m>> \o Descending(S \ {m})

\* round(0) of num/den, den > 0: to the nearest integer, a half to the even one.
Round(num, den) ==
    LET q == num \div den
        r == num % den
    IN  IF 2 * r < den THEN q
        ELSE IF 2 * r > den THEN q + 1
        ELSE IF q % 2 = 0 THEN q ELSE q + 1

\* The total of a year spread over the twelve months of the calendar.
MeanOverTwelve(salaries) == Round(SumSeq(salaries), 12)

\* mean() of a group, then round(0).astype(int): over the rows of the group.
MonthAvg(salaries) == Round(SumSeq(salaries), Len(salaries))

\* The cumulative column of the rows of a year (the wrong column summed).
YearCumulatives(frame, y) ==
    LET rows == SelectSeq(frame.rows, LAMBDA r : r.year = y)
    IN  [i \in 1..Len(rows) |-> rows[i].cumulative]

\* g["salary"]: the salaries of the rows of a year, in the frame's order.
YearSalaries(frame, y) ==
    Salaries(SelectSeq(frame.rows, LAMBDA r : r.year = y))

\* yearly_summary(ts): the frame itself when it is empty, else one row per
\* year, most recent year first.
yearly_summary(frame) ==
    IF Empty(frame) THEN frame
    ELSE LET years == Descending(Years(frame))
         IN  [columns |-> YsColumns,
              rows |-> [i \in 1..Len(years) |->
                  [year |-> years[i],
                   year_total |-> SumSeq(YearSalaries(frame, years[i])),
                   month_avg |-> MonthAvg(YearSalaries(frame, years[i])),
                   max_month_salary |-> MaxSeq(YearSalaries(frame, years[i]))]]]

-----------------------------------------------------------------------------
(* Tab 1: progress of a year and its twelve months *)

Ratio(a, b) == [num |-> a, den |-> b]

\* x < y for two ratios of positive denominator.
RatioLess(x, y) == x.num * y.den < y.num * x.den

\* Python's max(x, y) and min(x, y): the first argument unless the second is
\* strictly beyond it.
PyMax(x, y) == IF RatioLess(x, y) THEN y ELSE x
PyMin(x, y) == IF RatioLess(y, x) THEN y ELSE x

\* year_total / TARGET as it is, below 0 or above 1 included.
RawProgress(year_total) == Ratio(year_total, TARGET)

\* min(max(year_total / TARGET, 0.0), 1.0)
Progress(year_total) ==
    PyMin(PyMax(Ratio(year_total, TARGET), Ratio(0, 1)), Ratio(1, 1))

\* ts.loc[ts["year"] == selected_year, "salary"]
SelectedSalaries(frame, sel) ==
    Salaries(SelectSeq(frame.rows, LAMBDA r : r.year \in sel))

\* The third metric: the amount left while diff >= 0, the excess after.
DiffMetric(diff) == IF diff >= 0 THEN [label |-> "remaining", value |-> CommaStr(diff)]
                    ELSE [label |-> "over", value |-> CommaStr(-diff)]

\* year_ts with month_num: the rows of the selected year.
YearRows(frame, sel) == SelectSeq(frame.rows, LAMBDA r : r.year \in sel)

\* base.merge(year_ts[[month_num, salary]], on=month, how="left") from month k
\* on: per month of the base, one row per matching row of year_ts, or one row
\* with NaN when none matches.
RECURSIVE MergeFrom(_, _)
MergeFrom(k, rows) ==
    IF k > 12 THEN <<>>
    ELSE LET hits == SelectSeq(rows, LAMBDA r : r.month_date.month = k)
         IN  (IF hits = <<>> THEN <<[month |-> k, salary |-> NaN]>>
              ELSE [i \in 1..Len(hits) |-> [month |-> k, salary |-> {hits[i].salary}]])
             \o MergeFrom(k + 1, rows)

Merged(rows) == MergeFrom(1, rows)

\* fmt(x): blank for NaN, else the integer with thousands separators.
fmt(x) == IF x = NaN THEN <<>> ELSE CommaStr(CHOOSE v \in x : TRUE)

DisplayDf(merged) ==
    [i \in 1..Len(merged) |-> [month |-> merged[i].month, salary |-> fmt(merged[i].salary)]]

\* The options of a select box over the years of ts, and what it returns:
\* one of the options, or None when there is none.
Selections(frame) == IF Years(frame) = {} THEN {None} ELSE {{y} : y \in Years(frame)}

-----------------------------------------------------------------------------
(* The script *)

NoCall == [op |-> "none"]
NotRendered == [rendered |-> FALSE]
NoFrame == [columns |-> {}, rows |-> <<>>]
BlankView == [t1 |-> "blank", t2 |-> "blank", t3 |-> "blank", t4 |-> "blank"]

\* The table is created empty (init_db); no script is running.
Init ==
    /\ store = {}
    /\ last = NoCall
    /\ pc = "idle"
    /\ df = NoFrame
    /\ ts = NoFrame
    /\ ys = NoFrame
    /\ selected_year = None
    /\ tab1 = NotRendered
    /\ tab2 = NotRendered
    /\ tab3 = NotRendered
    /\ tab4 = NotRendered
    /\ view = BlankView
    /\ err = "none"

ScriptVars == <<pc, df, ts, ys, selected_year, tab1, tab2, tab3, tab4, view, err>>

\* upsert_month(month, salary) called directly, between script runs.
UpsertMonth(month, salary, now) ==
    /\ pc = "idle"
    /\ Cardinality(UpsertRows(store, month, salary, now)) <= MaxRows
    /\ store' = UpsertRows(store, month, salary, now)
    /\ last' = [op |-> "upsert", month |-> month, old |-> StoredSalary(store, month)]
    /\ UNCHANGED ScriptVars

\* delete_month(month) called directly, between script runs.
DeleteMonth(month) ==
    /\ pc = "idle"
    /\ store' = DeleteRows(store, month)
    /\ last' = [op |-> "delete", month |-> month, old |-> StoredSalary(store, month)]
    /\ UNCHANGED ScriptVars

\* A run of the script begins: init_db() finds the table, df = load_data().
Start ==
    /\ pc = "idle"
    /\ pc' = "form"
    /\ df' = load_data(store)
    /\ last' = NoCall
    /\ UNCHANGED <<store, ts, ys, selected_year, tab1, tab2, tab3, tab4, view, err>>

\* The form is shown and not submitted.
NoSubmit ==
    /\ pc = "form"
    /\ pc' = "tab1"
    /\ UNCHANGED <<store, last, df, ts, ys, selected_year, tab1, tab2, tab3, tab4,
                   view, err>>

\* The form is submitted with a year and a month of the select boxes and a
\* salary of the number input (min_value=0): upsert_month, then df = load_data().
Submit(year, month, salary, now) ==
    /\ pc = "form"
    /\ salary >= 0
    /\ Cardinality(UpsertRows(store, month_str(year, month), salary, now)) <= MaxRows
    /\ store' = UpsertRows(store, month_str(year, month), salary, now)
    /\ df' = load_data(store')
    /\ pc' = "tab1"
    /\ UNCHANGED <<last, ts, ys, selected_year, tab1, tab2, tab3, tab4, view, err>>

\* Tab 1 with the year `sel` picked.
Tab1 ==
    /\ pc = "tab1"
    /\ pc' = "tab2"
    /\ IF Empty(df)
       THEN /\ view' = [view EXCEPT !.t1 = "info"]
            /\ UNCHANGED <<ts, selected_year, tab1>>
       ELSE /\ ts' \in build_timeseries(df)
            /\ selected_year' \in Selections(ts')
            /\ LET year_total == SumSeq(SelectedSalaries(ts', selected_year'))
                   diff == TARGET - year_total
                   merged == Merged(YearRows(ts', selected_year'))
               IN  tab1' = [rendered |-> TRUE,
                            year_total |-> year_total,
                            diff |-> diff,
                            progress |-> Progress(year_total),
                            metric |-> DiffMetric(diff),
                            merged |-> merged,
                            display_df |-> DisplayDf(merged)]
            /\ view' = [view EXCEPT !.t1 = "data"]
    /\ UNCHANGED <<store, last, df, ys, tab2, tab3, tab4, err>>

\* ys.loc[ys["year"] == selected_year, column].iloc[0]: the exception it
\* raises, or "none".
LookupError(frame, sel, column) ==
    IF column \notin frame.columns THEN "KeyError"
    ELSE IF \A i \in 1..Len(frame.rows) : frame.rows[i].year \notin sel
         THEN "IndexError"
         ELSE "none"

\* The row of the selected year.
Lookup(frame, sel) ==
    frame.rows[CHOOSE i \in 1..Len(frame.rows) : frame.rows[i].year \in sel]

\* Tab 2: the yearly summary of the picked year and the chart of the years.
Tab2 ==
    /\ pc = "tab2"
    /\ IF Empty(df)
       THEN /\ view' = [view EXCEPT !.t2 = "info"]
            /\ pc' = "tab3"
            /\ UNCHANGED <<ts, ys, selected_year, tab2, err>>
       ELSE /\ ts' \in build_timeseries(df)
            /\ ys' = yearly_summary(ts')
            /\ selected_year' \in Selections(ts')
            /\ err' = LookupError(ys', selected_year', "year_total")
            /\ IF err' # "none"
               THEN /\ pc' = "crashed"
                    /\ UNCHANGED <<tab2, view>>
               ELSE /\ pc' = "tab3"
                    /\ tab2' = [rendered |-> TRUE,
                                year_total |-> Lookup(ys', selected_year').year_total,
                                month_avg |-> Lookup(ys', selected_year').month_avg,
                                max_month_salary |->
                                    Lookup(ys', selected_year').max_month_salary,
                                chart_years |->
                                    [i \in 1..Len(ys'.rows) |->
                                        ys'.rows[Len(ys'.rows) + 1 - i].year],
                                year_ts |-> YearRows(ts', selected_year')]
                    /\ view' = [view EXCEPT !.t2 = "data"]
    /\ UNCHANGED <<store, last, df, tab1, tab3, tab4>>

RECURSIVE Reverse(_)
Reverse(s) == IF s = <<>> THEN <<>> ELSE Reverse(Tail(s)) \o <<Head(s)>>

\* df.sort_values("month", ascending=False).head(10), one line per row.
Recent(frame) ==
    LET r == Reverse(frame.rows)
        n == IF Len(r) < 10 THEN Len(r) ELSE 10
    IN  [i \in 1..n |-> [month |-> r[i].month, salary |-> CommaStr(r[i].salary)]]

\* Tab 3: the history, as the table or as the ten latest records.
Tab3(show_table) ==
    /\ pc = "tab3"
    /\ pc' = "tab4"
    /\ IF Empty(df)
       THEN /\ view' = [view EXCEPT !.t3 = "info"]
            /\ UNCHANGED tab3
       ELSE /\ view' = [view EXCEPT !.t3 = "data"]
            /\ tab3' = [rendered |-> TRUE,
                        lines |-> IF show_table THEN df.rows ELSE Recent(df)]
    /\ UNCHANGED <<store, last, df, ts, ys, selected_year, tab1, tab2, tab4, err>>

\* Tab 4: the charts of the cumulative total and of the monthly salary.
Tab4 ==
    /\ pc = "tab4"
    /\ pc' = "done"
    /\ IF Empty(df)
       THEN /\ view' = [view EXCEPT !.t4 = "info"]
            /\ UNCHANGED <<ts, tab4>>
       ELSE /\ ts' \in build_timeseries(df)
            /\ view' = [view EXCEPT !.t4 = "data"]
            /\ tab4' = [rendered |-> TRUE,
                        line_df |-> [i \in 1..Len(ts'.rows) |->
                            [month |-> ts'.rows[i].month_date,
                             cumulative |-> ts'.rows[i].cumulative]],
                        bar_df |-> [i \in 1..Len(ts'.rows) |->
                            [month |-> ts'.rows[i].month_date,
                             salary |-> ts'.rows[i].salary]]]
    /\ UNCHANGED <<store, last, df, ys, selected_year, tab1, tab2, tab3, err>>

\* The run is over (the script ended, or an exception stopped it): its
\* variables are gone; the table stays.
Finish ==
    /\ pc \in {"done", "crashed"}
    /\ pc' = "idle"
    /\ df' = NoFrame
    /\ ts' = NoFrame
    /\ ys' = NoFrame
    /\ selected_year' = None
    /\ tab1' = NotRendered
    /\ tab2' = NotRendered
    /\ tab3' = NotRendered
    /\ tab4' = NotRendered
    /\ view' = BlankView
    /\ err' = "none"
    /\ UNCHANGED <<store, last>>

Next ==
    \/ \E month \in MonthKeys, salary \in Amounts, now \in Times :
          UpsertMonth(month, salary, now)
    \/ \E month \in MonthKeys : DeleteMonth(month)
    \/ Start
    \/ NoSubmit
    \/ \E year \in FormYears, month \in FormMonths, salary \in Amounts, now \in Times :
          Submit(year, month, salary, now)
    \/ Tab1
    \/ Tab2
    \/ \E show_table \in BOOLEAN : Tab3(show_table)
    \/ Tab4
    \/ Finish

Spec == Init /\ [][Next]_vars

-----------------------------------------------------------------------------
(* Properties *)

UniqueKeys(rows) == \A r, q \in rows : r.month = q.month => r = q

\* After upsert(month, salary): one row for the month, holding the salary,
\* and the rows of the other months as they were.
UpsertPost(before, after, month, salary) ==
    /\ Cardinality({r \in after : r.month = month}) = 1
    /\ \A r \in after : r.month = month => r.salary = salary
    /\ {r \in after : r.month # month} = {r \in before : r.month # month}

\* C1: every step leaves at most one row per month key, and an upsert
\* (direct or through the form) leaves exactly one row for its month, holding
\* the amount just written, and the rows of the other months untouched.
C1_UpsertOverwrites ==
    [][/\ UniqueKeys(store')
       /\ (pc = "idle" /\ last'.op = "upsert") =>
             \A a \in Amounts, t \in Times :
                UpsertMonth(last'.month, a, t)
                    => UpsertPost(store, store', last'.month, a)
       /\ (pc = "form" /\ pc' = "tab1") =>
             \A y \in FormYears, mo \in FormMonths, a \in Amounts, t \in Times :
                Submit(y, mo, a, t) => UpsertPost(store, store', month_str(y, mo), a)
      ]_vars

\* An upsert has just overwritten a month that held another amount, next to
\* the row of another month.
C1_Witness ==
    /\ last.op = "upsert"
    /\ last.old # NaN
    /\ Cardinality(StoredSalary(store, last.month)) = 1
    /\ last.old # StoredSalary(store, last.month)
    /\ Cardinality(store) = 2

\* The key has the shape YYYY-MM with a month 01..12.
IsCanonicalMonth(key) ==
    /\ Len(key) = 7
    /\ AllDigits(SubSeq(key, 1, 4))
    /\ key[5] = "-"
    /\ AllDigits(SubSeq(key, 6, 7))
    /\ DigitsVal(SubSeq(key, 6, 7)) \in 1..12

\* C2: an upsert with a malformed month key or a negative amount is rejected
\* before any write: the table is what it was before the call.
C2_InvalidUpsertRejected ==
    [][\A m \in MonthKeys, a \in Amounts, t \in Times :
          ((~IsCanonicalMonth(m) \/ a < 0) /\ UpsertMonth(m, a, t))
              => store' = store]_vars

\* C3: the time series is ascending by calendar month and its cumulative
\* column is the running sum of the amounts from the first entry on, across
\* year boundaries.
C3_SortedRunningSum ==
    ts.rows # <<>> =>
        /\ \A i \in 1..(Len(ts.rows) - 1) :
              ~DateLess(ts.rows[i + 1].month_date, ts.rows[i].month_date)
        /\ ts.rows[1].cumulative = ts.rows[1].salary
        /\ \A i \in 1..(Len(ts.rows) - 1) :
              ts.rows[i + 1].cumulative = ts.rows[i].cumulative + ts.rows[i + 1].salary

\* A series that runs from one year into the January of the next, with
\* amounts on both sides.
C3_Witness ==
    /\ Len(ts.rows) = 2
    /\ ts.rows[1].year + 1 = ts.rows[2].year
    /\ ts.rows[2].month_date.month = 1
    /\ ts.rows[1].salary > 0
    /\ ts.rows[2].salary > 0
    /\ ts.rows[2].cumulative = ts.rows[1].salary + ts.rows[2].salary

\* The sum of the salaries of the rows at the positions idx.
RECURSIVE SumAt(_, _)
SumAt(rows, idx) ==
    IF idx = {} THEN 0
    ELSE LET i == CHOOSE i \in idx : TRUE
         IN  rows[i].salary + SumAt(rows, idx \ {i})

PositionsOfYear(rows, y) == {i \in 1..Len(rows) : rows[i].year = y}

Abs(x) == IF x < 0 THEN -x ELSE x

\* C4: the yearly summary has one row per year of the time series, most
\* recent first; a row's total is the sum and its maximum the largest of the
\* year's amounts, and its average is the mean over the months that have
\* data, to the nearest integer (so a single month's average is its total).
C4_YearlySummary ==
    ys.columns = YsColumns =>
        /\ Len(ys.rows) = Cardinality(Years(ts))
        /\ {ys.rows[i].year : i \in 1..Len(ys.rows)} = Years(ts)
        /\ \A i \in 1..(Len(ys.rows) - 1) : ys.rows[i].year > ys.rows[i + 1].year
        /\ \A i \in 1..Len(ys.rows) :
              LET row == ys.rows[i]
                  at == PositionsOfYear(ts.rows, row.year)
                  n == Cardinality(at)
              IN  /\ row.year_total = SumAt(ts.rows, at)
                  /\ \A j \in at : ts.rows[j].salary <= row.max_month_salary
                  /\ \E j \in at : ts.rows[j].salary = row.max_month_salary
                  /\ 2 * Abs(n * row.month_avg - row.year_total) <= n
                  /\ n = 1 => row.month_avg = row.year_total

\* A year with two recorded months, 0 and 800000: its average is 400000.
C4_Witness ==
    /\ ys.columns = YsColumns
    /\ \E i \in 1..Len(ys.rows) :
          /\ Cardinality(PositionsOfYear(ts.rows, ys.rows[i].year)) = 2
          /\ ys.rows[i].year_total = 800000
          /\ ys.rows[i].month_avg = 400000
          /\ ys.rows[i].max_month_salary = 800000

\* C5: the totals of the yearly summary's rows add up to the last cumulative
\* value of the time series.
C5_TotalsMatchCumulative ==
    (ys.columns = YsColumns /\ ts.rows # <<>>) =>
        SumSeq([i \in 1..Len(ys.rows) |-> ys.rows[i].year_total])
            = ts.rows[Len(ts.rows)].cumulative

\* A summary of two years, each with an amount.
C5_Witness ==
    /\ ys.columns = YsColumns
    /\ Len(ys.rows) = 2
    /\ ys.rows[1].year_total > 0
    /\ ys.rows[2].year_total > 0
    /\ ts.rows[Len(ts.rows)].cumulative = ys.rows[1].year_total + ys.rows[2].year_total

\* C6: tab 1's progress is year_total / TARGET clamped to [0, 1], its
\* remaining amount is TARGET - year_total, and year_total is the sum of the
\* selected year's amounts only.
C6_Progress ==
    (pc = "tab2" /\ tab1 # NotRendered) =>
        LET total == tab1.year_total
            p == tab1.progress
            at == {i \in 1..Len(ts.rows) : ts.rows[i].year \in selected_year}
        IN  /\ total = SumAt(ts.rows, at)
            /\ tab1.diff = TARGET - total
            /\ p.den > 0
            /\ total <= 0 => p.num = 0
            /\ total >= TARGET => p.num = p.den
            /\ (0 < total /\ total < TARGET) => (p.num = total /\ p.den = TARGET)

\* A year over the target: progress 1 and a negative remaining amount.
C6_Witness ==
    /\ pc = "tab2"
    /\ tab1 # NotRendered
    /\ tab1.year_total > TARGET
    /\ tab1.diff < 0
    /\ tab1.progress.num = tab1.progress.den
    /\ tab1.metric.label = "over"

\* C7: tab 1's monthly table has exactly 12 rows, one per month 1..12 in
\* order; a row holds the amount stored for that month of the selected year,
\* or nothing when there is no record, and only a row without record is
\* rendered blank.
C7_TwelveSlots ==
    (pc = "tab2" /\ tab1 # NotRendered) =>
        /\ Len(tab1.merged) = 12
        /\ Len(tab1.display_df) = 12
        /\ \A k \in 1..12 :
              LET at == {i \in 1..Len(ts.rows) :
                            /\ ts.rows[i].year \in selected_year
                            /\ ts.rows[i].month_date.month = k}
              IN  /\ tab1.merged[k].month = k
                  /\ tab1.merged[k].salary = {ts.rows[i].salary : i \in at}
                  /\ tab1.display_df[k].salary = <<>> <=> at = {}

\* C8: delete_month of a month without a row leaves the table as it was, and
\* of a month with a row removes that row and no other.
C8_DeleteOnlyThatMonth ==
    [][\A m \in MonthKeys :
          DeleteMonth(m) =>
              /\ StoredSalary(store, m) = {} => store' = store
              /\ store' \subseteq store
              /\ \A r \in store : r \in store' <=> r.month # m]_vars

\* A delete of a month that had no row, with another month's row in the table.
C8_Witness ==
    /\ last.op = "delete"
    /\ last.old = NaN
    /\ store # {}

Parses(month) == to_datetime(month \o <<"-", "0", "1">>) # NaT

\* C9: the time series built from a non-empty table raises nothing and holds
\* exactly the rows whose key parses, each once; its running total is over
\* those rows only.
C9_MalformedRowsDropped ==
    view.t1 = "data" =>
        LET good == {i \in 1..Len(df.rows) : Parses(df.rows[i].month)}
        IN  /\ Len(ts.rows) = Cardinality(good)
            /\ {<<ts.rows[i].month, ts.rows[i].salary, ts.rows[i].updated_at>> :
                   i \in 1..Len(ts.rows)}
               = {<<df.rows[i].month, df.rows[i].salary, df.rows[i].updated_at>> :
                   i \in good}
            /\ ts.rows # <<>> =>
                  ts.rows[Len(ts.rows)].cumulative = SumAt(df.rows, good)

\* A table of one malformed and one well-formed row, and its series of one.
C9_Witness ==
    /\ view.t1 = "data"
    /\ Len(df.rows) = 2
    /\ Len(ts.rows) = 1
    /\ ts.rows[1].salary > 0
    /\ ts.rows[1].cumulative = ts.rows[1].salary

\* C10: no view fails on an empty data set: the aggregates of no records are
\* empty, progress of 0 is 0 with the whole target remaining, and a run whose
\* time series is empty (an empty table, or only malformed rows) raises
\* nothing.
C10_EmptyDataNeverFails ==
    /\ build_timeseries(load_data({})) = {load_data({})}
    /\ Empty(yearly_summary(load_data({})))
    /\ Progress(0).num = 0
    /\ Empty(ts) => err = "none"

=============================================================================
